---- MODULE Spec2Model ----
(***************************************************************************)
(* Presence sampling and session reconciliation of the Roblox monitor      *)
(* (script.js on the page, sw.js in the service worker).                   *)
(*                                                                         *)
(* JavaScript runs each handler to its next await without interruption,    *)
(* so one action of this model is one such run: from the start of a        *)
(* handler, or from the completion of the operation it awaited (a network  *)
(* fetch, an IndexedDB request), to the next await or to its end.          *)
(* Time is in milliseconds, as Date.now() gives it.                        *)
(***************************************************************************)
EXTENDS Integers, Sequences, FiniteSets, TLC

(* ---------------- program constants ---------------- *)

PollIntervalMs == 60000

HeartbeatMs == 1800000

MsPerSec == 1000

WorkerApproxMs == 300000

SimOnlineMilli == 400

WorkerOnlineMilli == 450

(* ---------------- bounds of the model ---------------- *)

\* in-flight asynchronous invocations on the page and in the worker
MaxTasks == 2

\* environment events in one behaviour (handler starts, clock advances, store
\* failures) when invocations overlap freely
MaxBudget == 3

\* the same, when one invocation of the page runs at a time
MaxSerialBudget == 3

\* minutes of uninterrupted polling, and state changes recorded in them
MaxPollMinutes == 33

MaxPollEvents == 2

\* events the log holds at most
MaxEvents == 3

(* ---------------- values ---------------- *)

\* null as an activity label
Null == "null"

\* null as a timestamp and as a timer handle
NullTs == -1

Users == {"a", "b"}

ClockSteps == {1500, PollIntervalMs, HeartbeatMs + PollIntervalMs}

\* Date.now() when the page has loaded
StartMs == 600000

FetchGames == {"Jogo (place 1)"}

games == <<"Jogo A", "Jogo B", "City Adventure", "Tycoon X", "Obby Fun">>

workerGames == <<"Jogo A", "Jogo B", "TycoonX", "Obby">>

\* JavaScript truthiness of a string-or-null and of a number-or-null
Truthy(x) == x # Null /\ x # ""

TruthyTs(x) == x # NullTs /\ x # 0

\* a || null
OrNull(x) == IF Truthy(x) THEN x ELSE Null

Max(a, b) == IF a >= b THEN a ELSE b

\* Math.floor(x / 1000) on integers of either sign
FloorSec(x) == x \div MsPerSec

(* ---------------- the simulator ---------------- *)

\* floor(1000 * (Math.abs(Math.sin(seed)) % 1)) for seed = 0 .. 479
SinMilli ==
  << 0, 841, 909, 141, 756, 958, 279, 656, 989, 412, 544, 999, 536, 420, 990, 650,
     287, 961, 750, 149, 912, 836, 8, 846, 905, 132, 762, 956, 270, 663, 988, 404,
     551, 999, 529, 428, 991, 643, 296, 963, 745, 158, 916, 831, 17, 850, 901, 123,
     768, 953, 262, 670, 986, 395, 558, 999, 521, 436, 992, 636, 304, 966, 739, 167,
     920, 826, 26, 855, 897, 114, 773, 951, 253, 676, 985, 387, 566, 999, 513, 444,
     993, 629, 313, 968, 733, 176, 923, 821, 35, 860, 893, 105, 779, 948, 245, 683,
     983, 379, 573, 999, 506, 452, 994, 622, 321, 970, 727, 184, 926, 816, 44, 864,
     889, 97, 784, 945, 236, 689, 981, 371, 580, 998, 498, 459, 995, 616, 329, 972,
     721, 193, 930, 811, 53, 868, 885, 88, 790, 942, 228, 696, 980, 363, 587, 998,
     491, 467, 996, 609, 338, 974, 714, 202, 933, 806, 61, 873, 881, 79, 795, 939,
     219, 702, 978, 354, 594, 997, 483, 475, 997, 601, 346, 976, 708, 210, 936, 801,
     70, 877, 877, 70, 801, 936, 210, 708, 976, 346, 602, 997, 475, 483, 997, 594,
     354, 978, 702, 219, 939, 795, 79, 881, 873, 61, 806, 933, 202, 714, 974, 338,
     609, 996, 467, 491, 998, 587, 363, 980, 696, 228, 942, 790, 88, 885, 868, 53,
     811, 930, 193, 721, 972, 329, 616, 995, 459, 498, 998, 580, 371, 981, 689, 236,
     945, 784, 97, 890, 864, 44, 816, 926, 184, 727, 970, 321, 623, 994, 451, 506,
     999, 573, 379, 983, 683, 245, 948, 779, 106, 894, 860, 35, 821, 923, 176, 733,
     968, 313, 629, 993, 444, 514, 999, 566, 387, 985, 676, 253, 951, 773, 114, 897,
     855, 26, 826, 920, 167, 739, 966, 304, 636, 992, 436, 521, 999, 558, 395, 986,
     670, 262, 953, 768, 123, 901, 850, 17, 831, 916, 158, 745, 963, 296, 643, 991,
     428, 529, 999, 551, 404, 988, 663, 270, 956, 762, 132, 905, 846, 8, 836, 912,
     149, 751, 961, 287, 650, 990, 420, 536, 999, 543, 412, 989, 656, 279, 958, 756,
     141, 909, 841, 0, 841, 909, 141, 756, 958, 279, 657, 989, 412, 544, 999, 536,
     420, 990, 650, 287, 961, 750, 149, 912, 836, 8, 846, 905, 132, 762, 956, 270,
     663, 988, 404, 551, 999, 529, 428, 991, 643, 296, 963, 745, 158, 916, 831, 17,
     850, 901, 123, 768, 953, 262, 670, 986, 395, 558, 999, 521, 436, 992, 636, 304,
     966, 739, 167, 920, 826, 26, 855, 897, 114, 773, 951, 253, 676, 985, 387, 566,
     999, 513, 444, 993, 629, 313, 968, 733, 176, 923, 821, 35, 860, 893, 105, 779,
     948, 245, 683, 983, 379, 573, 999, 506, 452, 994, 622, 321, 970, 727, 184, 926,
     816, 44, 864, 889, 97, 784, 945, 236, 689, 981, 371, 580, 998, 498, 459, 995 >>

\* [...username].reduce((s,c) => s + c.charCodeAt(0), 0)
CharCodeSum(u) == CASE u = "a" -> 97 [] u = "b" -> 98 [] OTHER -> 0

Seed(u, t) == CharCodeSum(u) + (t \div 60000)

Sample(on, g) == [online |-> on, gameName |-> g]

\* simulateStatus seeded with the half minute instead of the minute
simulateStatusHalfMinute(u, t) ==
  LET rnd == SinMilli[CharCodeSum(u) + (t \div 30000) + 1]
      on  == rnd > SimOnlineMilli - 1
  IN  Sample(on, IF on THEN games[(rnd % Len(games)) + 1] ELSE Null)

simulateStatus(u, t) ==
  LET rnd == SinMilli[Seed(u, t) + 1]
      on  == rnd > SimOnlineMilli - 1
  IN  Sample(on, IF on THEN games[(rnd % Len(games)) + 1] ELSE Null)

simulateStatusWorker(u, t) ==
  LET rnd == SinMilli[Seed(u, t) + 1]
      on  == rnd > WorkerOnlineMilli - 1
  IN  Sample(on, IF on THEN workerGames[(rnd % Len(workerGames)) + 1] ELSE Null)

\* what a successful presence lookup can return
FetchSamples == { Sample(on, g) : on \in BOOLEAN, g \in FetchGames \cup {Null} }

(* ---------------- state ---------------- *)

VARIABLES
  now,                 \* Date.now()
  visible,             \* document.visibilityState = 'visible'
  username,            \* state.username
  useSimulator,        \* state.useSimulator
  lastKnownStatus,     \* state.lastKnownStatus
  currentSessionStart, \* state.currentSessionStart
  pollingTimer,        \* state.pollingTimer
  timers,              \* the interval timers that are set: id -> earliest next firing
  events,              \* object store 'events', in key order
  sessions,            \* object store 'sessions', in key order
  tasks,               \* the asynchronous invocations that are suspended at an await
  budget               \* environment events left

vars == << now, visible, username, useSimulator, lastKnownStatus, currentSessionStart,
           pollingTimer, timers, events, sessions, tasks, budget >>

TaskIds == 1 .. MaxTasks

Task(pc, ctx, user, ts, on, g, rec) ==
  [pc |-> pc, ctx |-> ctx, user |-> user, ts |-> ts, online |-> on, gameName |-> g, rec |-> rec]

Idle == Task("idle", Null, Null, 0, FALSE, Null, Null)

Status(on, g, ts) == [online |-> on, gameName |-> g, ts |-> ts]

\* null as state.lastKnownStatus
NullStatus == Status(FALSE, Null, NullTs)

EventRec(u, on, g, ts, hb) ==
  [username |-> u, online |-> on, gameName |-> g, timestamp |-> ts, heartbeat |-> hb]

SessionRec(u, start, end, dur, g) ==
  [username |-> u, startTs |-> start, endTs |-> end, durationSec |-> dur, gameName |-> g]

\* the result of running page code up to its next await
Outcome(task, lks, css) == [task |-> task, lks |-> lks, css |-> css]

Init ==
  /\ now = StartMs
  /\ visible = TRUE
  /\ username = ""
  /\ useSimulator \in BOOLEAN
  /\ lastKnownStatus = NullStatus
  /\ currentSessionStart = NullTs
  /\ pollingTimer = NullTs
  /\ timers = << >>
  /\ events = << >>
  /\ sessions = << >>
  /\ tasks = [i \in TaskIds |-> Idle]
  /\ budget = MaxBudget

(* ---------------- the stores ---------------- *)

\* dbGetAll(events).filter(e => e.username === u).sort((a,b) => a.timestamp - b.timestamp),
\* last element: the sort is stable, so among equal timestamps the last inserted
HasEventOf(ev, u) == \E k \in 1 .. Len(ev) : ev[k].username = u

LastEventOf(ev, u) ==
  LET idx == { k \in 1 .. Len(ev) : ev[k].username = u }
      best == CHOOSE k \in idx : \A j \in idx :
                \/ ev[j].timestamp < ev[k].timestamp
                \/ (ev[j].timestamp = ev[k].timestamp /\ j <= k)
  IN  ev[best]

HasEventFor(u) == HasEventOf(events, u)

LastEventFor(u) == LastEventOf(events, u)

(* ---------------- page code between awaits ---------------- *)

\* the session addStatusEvent writes when an offline event finds a session open
closedSession(u, css, lks, g, ts) ==
  SessionRec(u, css, ts, Max(0, FloorSec(ts - css)),
             IF lks # NullStatus /\ Truthy(lks.gameName) THEN lks.gameName ELSE OrNull(g))

\* the session onReopenFillGap synthesizes from the last event to the current sample
gapSession(u, lastEv, g, ts) ==
  SessionRec(u, lastEv.timestamp, ts, Max(0, FloorSec(ts - lastEv.timestamp)),
             IF Truthy(lastEv.gameName) THEN lastEv.gameName ELSE OrNull(g))

\* the session workerSaveEvent writes for an offline sample
workerSession(u, g, ts) ==
  SessionRec(u, ts - WorkerApproxMs, ts, FloorSec(ts - (ts - WorkerApproxMs)), OrNull(g))

\* repairStateFromDB leaving currentSessionStart alone when the last event is offline
repairStateFromDBKeepsOpen(ev, u, lks, css) ==
  IF ~HasEventOf(ev, u)
  THEN [lks |-> lks, css |-> css]
  ELSE LET lastEv == LastEventOf(ev, u)
       IN  IF lastEv.online
           THEN [lks |-> Status(TRUE, lastEv.gameName, lastEv.timestamp),
                 css |-> lastEv.timestamp]
           ELSE [lks |-> Status(FALSE, Null, lastEv.timestamp), css |-> css]

\* repairStateFromDB keeping the start of a session that is already open
repairStateFromDBKeepsStart(ev, u, lks, css) ==
  IF ~HasEventOf(ev, u)
  THEN [lks |-> lks, css |-> css]
  ELSE LET lastEv == LastEventOf(ev, u)
       IN  IF lastEv.online
           THEN [lks |-> Status(TRUE, lastEv.gameName, lastEv.timestamp),
                 css |-> IF TruthyTs(css) THEN css ELSE lastEv.timestamp]
           ELSE [lks |-> Status(FALSE, Null, lastEv.timestamp), css |-> NullTs]

\* the runtime state repairStateFromDB leaves, given the events it reads and
\* the state it finds
repairStateFromDB(ev, u, lks, css) ==
  IF ~HasEventOf(ev, u)
  THEN [lks |-> lks, css |-> css]
  ELSE LET lastEv == LastEventOf(ev, u)
       IN  IF lastEv.online
           THEN [lks |-> Status(TRUE, lastEv.gameName, lastEv.timestamp),
                 css |-> lastEv.timestamp]
           ELSE [lks |-> Status(FALSE, Null, lastEv.timestamp), css |-> NullTs]

\* updateUILive: the session-start marker it keeps for the live display
updateUILive(on, lks, css) ==
  IF on /\ ~TruthyTs(css)
  THEN (IF lks # NullStatus THEN lks.ts ELSE now)
  ELSE css

\* the end of onStatusResult with the activity of the sample dropped
onStatusResultEndDropsActivity(on, g, ts, css) ==
  Outcome(Idle, Status(on, Null, ts), updateUILive(on, Status(on, Null, ts), css))

\* the end of onStatusResult: lines 392-395
onStatusResultEnd(on, g, ts, css) ==
  Outcome(Idle, Status(on, g, ts), updateUILive(on, Status(on, g, ts), css))

\* addStatusEvent up to its await of dbAdd(events)
addStatusEventCall(ctx, u, on, g, ts, lks, css) ==
  Outcome(Task("addEv", ctx, u, ts, on, g, EventRec(u, on, OrNull(g), ts, FALSE)), lks, css)

StatusChanged(lks, on, g) ==
  lks.online # on \/ (on /\ lks.gameName # g)

\* HeartbeatDue with the 30 minutes taken in seconds instead of milliseconds
HeartbeatDueInSeconds(lks, ts) ==
  ts - (IF TruthyTs(lks.ts) THEN lks.ts ELSE 0) > HeartbeatMs \div MsPerSec

HeartbeatDue(lks, ts) ==
  ts - (IF TruthyTs(lks.ts) THEN lks.ts ELSE 0) > HeartbeatMs

\* onStatusResult up to its first await, or to its end
onStatusResult(res, ts, lks, css) ==
  LET on == res.online
      g  == OrNull(res.gameName)
  IN  IF lks = NullStatus
      THEN addStatusEventCall("ingest", username, on, g, ts, lks, css)
      ELSE IF StatusChanged(lks, on, g)
      THEN addStatusEventCall("ingest", username, on, g, ts, lks, css)
      ELSE IF HeartbeatDue(lks, ts)
      THEN Outcome(Task("addHb", "ingest", username, ts, on, g,
                        EventRec(username, on, g, ts, TRUE)), lks, css)
      ELSE onStatusResultEnd(on, g, ts, css)

\* checkAndRecord up to its first await, or to its end
checkAndRecord(lks, css) ==
  IF ~Truthy(username)
  THEN Outcome(Idle, lks, css)
  ELSE IF useSimulator
  THEN onStatusResult(simulateStatus(username, now), now, lks, css)
  ELSE Outcome(Task("fetch", "ingest", username, now, FALSE, Null, Null), lks, css)

\* stopPolling leaving the interval timer running
stopPollingKeepsTimer(tm) == tm

\* stopPolling: clearInterval of the timer state.pollingTimer names
stopPolling(tm) ==
  IF TruthyTs(pollingTimer)
  THEN [j \in (DOMAIN tm) \ {pollingTimer} |-> tm[j]]
  ELSE tm

\* setInterval: a timer id that is not in use
NewTimerId(tm) == CHOOSE id \in 1 .. (Cardinality(DOMAIN tm) + 1) : id \notin DOMAIN tm

setInterval(tm) ==
  [j \in (DOMAIN tm) \cup {NewTimerId(tm)} |->
     IF j = NewTimerId(tm) THEN now + PollIntervalMs ELSE tm[j]]

\* startPolling, run by the invocation in slot i as its last statement, with
\* the runtime state (lks, css) that invocation has just produced
StartPolling(i, lks, css) ==
  LET r == checkAndRecord(lks, css)
  IN  /\ tasks' = [tasks EXCEPT ![i] = r.task]
      /\ lastKnownStatus' = r.lks
      /\ currentSessionStart' = r.css
      /\ timers' = setInterval(stopPolling(timers))
      /\ pollingTimer' = NewTimerId(stopPolling(timers))

\* the page code that follows a settled addStatusEvent
AfterAddStatusEvent(i, lks, css) ==
  IF tasks[i].ctx = "ingest"
  THEN LET r == onStatusResultEnd(tasks[i].online, tasks[i].gameName, tasks[i].ts, css)
       IN  /\ tasks' = [tasks EXCEPT ![i] = r.task]
           /\ lastKnownStatus' = r.lks
           /\ currentSessionStart' = r.css
           /\ UNCHANGED << timers, pollingTimer >>
  ELSE StartPolling(i, lks, css)

Apply(i, r) ==
  /\ tasks' = [tasks EXCEPT ![i] = r.task]
  /\ lastKnownStatus' = r.lks
  /\ currentSessionStart' = r.css

HasFreeSlot == \E i \in TaskIds : tasks[i].pc = "idle"

FreeSlot == CHOOSE i \in TaskIds : tasks[i].pc = "idle" /\ \A j \in TaskIds : tasks[j].pc = "idle" => i <= j

(* ---------------- the environment ---------------- *)

Spend == budget > 0 /\ budget' = budget - 1

\* time passes
Advance ==
  /\ Spend
  /\ \E d \in ClockSteps : now' = now + d
  /\ UNCHANGED << visible, username, useSimulator, lastKnownStatus, currentSessionStart,
                  pollingTimer, timers, events, sessions, tasks >>

(* ---------------- the poll timer: checkAndRecord ---------------- *)

\* the setInterval callback of startPolling
Tick ==
  /\ HasFreeSlot
  /\ \E id \in DOMAIN timers :
       /\ now >= timers[id]
       /\ timers' = [timers EXCEPT ![id] = now + PollIntervalMs]
  /\ Apply(FreeSlot, checkAndRecord(lastKnownStatus, currentSessionStart))
  /\ UNCHANGED << now, visible, username, useSimulator, pollingTimer, events, sessions,
                  budget >>

\* checkAndRecord resumes with a sample from the presence API
FetchOk(i) ==
  /\ tasks[i].pc = "fetch"
  /\ \E res \in FetchSamples :
       Apply(i, onStatusResult(res, tasks[i].ts, lastKnownStatus, currentSessionStart))
  /\ UNCHANGED << now, visible, username, useSimulator, pollingTimer, timers, events,
                  sessions, budget >>

\* checkAndRecord resumes with { ok:false, fallback:true }
FetchFallback(i) ==
  /\ tasks[i].pc = "fetch"
  /\ useSimulator' = TRUE
  /\ Apply(i, onStatusResult(simulateStatus(username, now), tasks[i].ts,
                             lastKnownStatus, currentSessionStart))
  /\ UNCHANGED << now, visible, username, pollingTimer, timers, events, sessions, budget >>

\* addStatusEvent resumes after dbAdd(events)
AddEventDone(i) ==
  LET t == tasks[i]
      lks == Status(t.online, t.gameName, t.ts)
  IN
  /\ t.pc = "addEv"
  /\ Len(events) < MaxEvents
  /\ events' = Append(events, t.rec)
  /\ IF t.online
     THEN AfterAddStatusEvent(i, lks,
            IF ~TruthyTs(currentSessionStart) THEN t.ts ELSE currentSessionStart)
     ELSE IF TruthyTs(currentSessionStart)
     THEN /\ tasks' = [tasks EXCEPT ![i] =
                 [t EXCEPT !.pc = "addSess",
                           !.rec = closedSession(t.user, currentSessionStart,
                                                 lastKnownStatus, t.gameName, t.ts)]]
          /\ UNCHANGED << lastKnownStatus, currentSessionStart, timers, pollingTimer >>
     ELSE AfterAddStatusEvent(i, lks, currentSessionStart)
  /\ UNCHANGED << now, visible, username, useSimulator, sessions, budget >>

\* addStatusEvent resumes after dbAdd(sessions)
AddSessionDone(i) ==
  LET t == tasks[i]
  IN
  /\ t.pc = "addSess"
  /\ sessions' = Append(sessions, t.rec)
  /\ AfterAddStatusEvent(i, Status(t.online, t.gameName, t.ts), NullTs)
  /\ UNCHANGED << now, visible, username, useSimulator, events, budget >>

\* onStatusResult resumes after the dbAdd of a heartbeat; with lastKnownStatus
\* null the assignment to its ts throws and the invocation ends there
AddHeartbeatDone(i) ==
  LET t == tasks[i]
  IN
  /\ t.pc = "addHb"
  /\ Len(events) < MaxEvents
  /\ events' = Append(events, t.rec)
  /\ IF lastKnownStatus = NullStatus
     THEN /\ tasks' = [tasks EXCEPT ![i] = Idle]
          /\ UNCHANGED << lastKnownStatus, currentSessionStart >>
     ELSE Apply(i, onStatusResultEnd(t.online, t.gameName, t.ts, currentSessionStart))
  /\ UNCHANGED << now, visible, username, useSimulator, pollingTimer, timers, sessions,
                  budget >>

\* AddFails with the poll timer cleared when the write of an ingest is rejected
AddFailsStopsPolling(i) ==
  /\ tasks[i].pc \in {"addEv", "addSess", "addHb"}
  /\ Spend
  /\ IF tasks[i].ctx = "ingest"
     THEN /\ tasks' = [tasks EXCEPT ![i] = Idle]
          /\ timers' = stopPolling(timers)
          /\ pollingTimer' = NullTs
          /\ UNCHANGED << lastKnownStatus, currentSessionStart >>
     ELSE StartPolling(i, lastKnownStatus, currentSessionStart)
  /\ UNCHANGED << now, visible, username, useSimulator, events, sessions >>

\* AddFails with the runtime state of the sample committed although the write
\* was rejected
AddFailsCommits(i) ==
  /\ tasks[i].pc \in {"addEv", "addSess", "addHb"}
  /\ Spend
  /\ IF tasks[i].ctx = "ingest"
     THEN /\ Apply(i, onStatusResultEnd(tasks[i].online, tasks[i].gameName, tasks[i].ts,
                                        currentSessionStart))
          /\ UNCHANGED << timers, pollingTimer >>
     ELSE StartPolling(i, lastKnownStatus, currentSessionStart)
  /\ UNCHANGED << now, visible, username, useSimulator, events, sessions >>

\* a dbAdd of addStatusEvent or of the heartbeat is rejected: called from
\* onStatusResult the error ends the invocation, called from onReopenFillGap it
\* is caught there and the caller goes on to startPolling
AddFails(i) ==
  /\ tasks[i].pc \in {"addEv", "addSess", "addHb"}
  /\ Spend
  /\ IF tasks[i].ctx = "ingest"
     THEN /\ tasks' = [tasks EXCEPT ![i] = Idle]
          /\ UNCHANGED << lastKnownStatus, currentSessionStart, timers, pollingTimer >>
     ELSE StartPolling(i, lastKnownStatus, currentSessionStart)
  /\ UNCHANGED << now, visible, username, useSimulator, events, sessions >>

(* ---------------- gap repair: onReopenFillGap ---------------- *)

\* onReopenFillGap(res, ts) up to its await of dbGetAll(events)
onReopenFillGapCall(res, ts) ==
  Task("gapRead", "gap", Null, ts, res.online, res.gameName, Null)

\* onReopenFillGap resumes with the events read
GapReadDone(i) ==
  LET t == tasks[i]
  IN
  /\ t.pc = "gapRead"
  /\ IF ~HasEventFor(username)
     THEN Apply(i, addStatusEventCall("gap", username, t.online, t.gameName, t.ts,
                                      lastKnownStatus, currentSessionStart))
     ELSE LET lastEv == LastEventFor(username)
          IN  /\ IF lastEv.online /\ ~t.online
                 THEN tasks' = [tasks EXCEPT ![i] =
                        [t EXCEPT !.pc = "gapSess",
                                  !.rec = gapSession(username, lastEv, t.gameName, t.ts)]]
                 ELSE tasks' = [tasks EXCEPT ![i] =
                        [t EXCEPT !.pc = "gapEv",
                                  !.rec = EventRec(username, t.online, OrNull(t.gameName),
                                                   t.ts, FALSE)]]
              /\ UNCHANGED << lastKnownStatus, currentSessionStart >>
  /\ UNCHANGED << now, visible, username, useSimulator, pollingTimer, timers, events,
                  sessions, budget >>

\* onReopenFillGap resumes after the dbAdd of the synthesized session
GapSessionDone(i) ==
  LET t == tasks[i]
  IN
  /\ t.pc = "gapSess"
  /\ sessions' = Append(sessions, t.rec)
  /\ tasks' = [tasks EXCEPT ![i] =
        [t EXCEPT !.pc = "gapEv",
                  !.rec = EventRec(username, FALSE, OrNull(t.gameName), t.ts, FALSE)]]
  /\ UNCHANGED << now, visible, username, useSimulator, lastKnownStatus, currentSessionStart,
                  pollingTimer, timers, events, budget >>

\* GapEventDone putting the Event of the repair in the place of the last
\* stored one
GapEventDoneOverwrites(i) ==
  /\ tasks[i].pc = "gapEv"
  /\ Len(events) < MaxEvents
  /\ events' = IF events = << >>
               THEN << tasks[i].rec >>
               ELSE [events EXCEPT ![Len(events)] = tasks[i].rec]
  /\ tasks' = [tasks EXCEPT ![i] = [@ EXCEPT !.pc = "repRead", !.rec = Null]]
  /\ UNCHANGED << now, visible, username, useSimulator, lastKnownStatus, currentSessionStart,
                  pollingTimer, timers, sessions, budget >>

\* onReopenFillGap resumes after the dbAdd of the current event and awaits
\* the read of repairStateFromDB
GapEventDone(i) ==
  /\ tasks[i].pc = "gapEv"
  /\ Len(events) < MaxEvents
  /\ events' = Append(events, tasks[i].rec)
  /\ tasks' = [tasks EXCEPT ![i] = [@ EXCEPT !.pc = "repRead", !.rec = Null]]
  /\ UNCHANGED << now, visible, username, useSimulator, lastKnownStatus, currentSessionStart,
                  pollingTimer, timers, sessions, budget >>

\* repairStateFromDB resumes with the events read; onReopenFillGap returns
\* and its caller runs startPolling
GapRepairDone(i) ==
  /\ tasks[i].pc = "repRead"
  /\ LET r == repairStateFromDB(events, username, lastKnownStatus, currentSessionStart)
     IN  StartPolling(i, r.lks, r.css)
  /\ UNCHANGED << now, visible, username, useSimulator, events, sessions, budget >>

\* a dbAdd of onReopenFillGap is rejected: its catch logs the error and the
\* caller runs startPolling
GapAddFails(i) ==
  /\ tasks[i].pc \in {"gapSess", "gapEv"}
  /\ Spend
  /\ StartPolling(i, lastKnownStatus, currentSessionStart)
  /\ UNCHANGED << now, visible, username, useSimulator, events, sessions >>

(* ---------------- visibilitychange ---------------- *)

\* the tab becomes visible: the handler up to its first await
BecomeVisible ==
  /\ ~visible
  /\ Spend
  /\ HasFreeSlot
  /\ visible' = TRUE
  /\ IF useSimulator
     THEN /\ tasks' = [tasks EXCEPT ![FreeSlot] =
                         onReopenFillGapCall(simulateStatus(username, now), now)]
          /\ UNCHANGED << lastKnownStatus, currentSessionStart, pollingTimer, timers >>
     ELSE IF ~Truthy(username)
     THEN StartPolling(FreeSlot, lastKnownStatus, currentSessionStart)
     ELSE /\ tasks' = [tasks EXCEPT ![FreeSlot] =
                         Task("visFetch", "gap", username, 0, FALSE, Null, Null)]
          /\ UNCHANGED << lastKnownStatus, currentSessionStart, pollingTimer, timers >>
  /\ UNCHANGED << now, username, useSimulator, events, sessions >>

\* the tab becomes hidden
BecomeHidden ==
  /\ visible
  /\ Spend
  /\ visible' = FALSE
  /\ timers' = stopPolling(timers)
  /\ pollingTimer' = IF TruthyTs(pollingTimer) THEN NullTs ELSE pollingTimer
  /\ UNCHANGED << now, username, useSimulator, lastKnownStatus, currentSessionStart,
                  events, sessions, tasks >>

\* the handler resumes with a sample
VisFetchOk(i) ==
  /\ tasks[i].pc = "visFetch"
  /\ \E res \in FetchSamples :
       tasks' = [tasks EXCEPT ![i] = onReopenFillGapCall(res, now)]
  /\ UNCHANGED << now, visible, username, useSimulator, lastKnownStatus, currentSessionStart,
                  pollingTimer, timers, events, sessions, budget >>

\* the handler resumes with { ok:false }: no repair, startPolling
VisFetchFails(i) ==
  /\ tasks[i].pc = "visFetch"
  /\ StartPolling(i, lastKnownStatus, currentSessionStart)
  /\ UNCHANGED << now, visible, username, useSimulator, events, sessions, budget >>

(* ---------------- setUsername ---------------- *)

\* setUsername(u) up to its await of repairStateFromDB
SetUsername ==
  /\ Spend
  /\ HasFreeSlot
  /\ \E u \in Users :
       /\ username' = u
       /\ tasks' = [tasks EXCEPT ![FreeSlot] = Task("suRead", "gap", u, 0, FALSE, Null, Null)]
  /\ UNCHANGED << now, visible, useSimulator, lastKnownStatus, currentSessionStart,
                  pollingTimer, timers, events, sessions >>

\* setUsername resumes after repairStateFromDB, up to its next await
SetUsernameRepaired(i) ==
  LET r == repairStateFromDB(events, username, lastKnownStatus, currentSessionStart)
  IN
  /\ tasks[i].pc = "suRead"
  /\ lastKnownStatus' = r.lks
  /\ currentSessionStart' = r.css
  /\ tasks' = [tasks EXCEPT ![i] =
        IF useSimulator
        THEN onReopenFillGapCall(simulateStatus(tasks[i].user, now), now)
        ELSE [tasks[i] EXCEPT !.pc = "suFetch"]]
  /\ UNCHANGED << now, visible, username, useSimulator, pollingTimer, timers, events,
                  sessions, budget >>

\* setUsername resumes with a sample
SetUsernameFetchOk(i) ==
  /\ tasks[i].pc = "suFetch"
  /\ \E res \in FetchSamples :
       tasks' = [tasks EXCEPT ![i] = onReopenFillGapCall(res, now)]
  /\ UNCHANGED << now, visible, username, useSimulator, lastKnownStatus, currentSessionStart,
                  pollingTimer, timers, events, sessions, budget >>

\* setUsername resumes with { ok:false }: no repair, startPolling
SetUsernameFetchFails(i) ==
  /\ tasks[i].pc = "suFetch"
  /\ StartPolling(i, lastKnownStatus, currentSessionStart)
  /\ UNCHANGED << now, visible, username, useSimulator, events, sessions, budget >>

(* ---------------- the service worker: sw.js ---------------- *)

\* workerSaveEvent(u, res, ts) up to its await of dbAddWorker(events)
workerSaveEventCall(u, res, ts) ==
  Task("wAddEv", "worker", u, ts, res.online, res.gameName,
       EventRec(u, res.online, OrNull(res.gameName), ts, FALSE))

\* a 'doCheck' message arrives: the handler up to its first await
WorkerCheck ==
  /\ Spend
  /\ HasFreeSlot
  /\ \E u \in Users, sim \in BOOLEAN :
       tasks' = [tasks EXCEPT ![FreeSlot] =
          IF sim
          THEN workerSaveEventCall(u, simulateStatusWorker(u, now), now)
          ELSE Task("wFetch", "worker", u, now, FALSE, Null, Null)]
  /\ UNCHANGED << now, visible, username, useSimulator, lastKnownStatus, currentSessionStart,
                  pollingTimer, timers, events, sessions >>

\* the worker's fetch settles: a sample, or a failure replaced by the
\* worker's simulator
WorkerFetchDone(i) ==
  /\ tasks[i].pc = "wFetch"
  /\ \E res \in FetchSamples \cup {simulateStatusWorker(tasks[i].user, now)} :
       tasks' = [tasks EXCEPT ![i] = workerSaveEventCall(tasks[i].user, res, tasks[i].ts)]
  /\ UNCHANGED << now, visible, username, useSimulator, lastKnownStatus, currentSessionStart,
                  pollingTimer, timers, events, sessions, budget >>

\* workerSaveEvent resumes after the dbAddWorker of the event
WorkerEventDone(i) ==
  LET t == tasks[i]
  IN
  /\ t.pc = "wAddEv"
  /\ Len(events) < MaxEvents
  /\ events' = Append(events, t.rec)
  /\ tasks' = [tasks EXCEPT ![i] =
        IF ~t.online
        THEN [t EXCEPT !.pc = "wAddSess", !.rec = workerSession(t.user, t.gameName, t.ts)]
        ELSE Idle]
  /\ UNCHANGED << now, visible, username, useSimulator, lastKnownStatus, currentSessionStart,
                  pollingTimer, timers, sessions, budget >>

\* workerSaveEvent resumes after the dbAddWorker of the session
WorkerSessionDone(i) ==
  /\ tasks[i].pc = "wAddSess"
  /\ sessions' = Append(sessions, tasks[i].rec)
  /\ tasks' = [tasks EXCEPT ![i] = Idle]
  /\ UNCHANGED << now, visible, username, useSimulator, lastKnownStatus, currentSessionStart,
                  pollingTimer, timers, events, budget >>

\* a dbAddWorker is rejected: workerSaveEvent swallows the error
WorkerAddFails(i) ==
  /\ tasks[i].pc \in {"wAddEv", "wAddSess"}
  /\ Spend
  /\ tasks' = [tasks EXCEPT ![i] = Idle]
  /\ UNCHANGED << now, visible, username, useSimulator, lastKnownStatus, currentSessionStart,
                  pollingTimer, timers, events, sessions >>

(* ---------------- the reset button ---------------- *)

\* the click handler up to its await of dbClear(events)
ResetClick ==
  /\ Spend
  /\ HasFreeSlot
  /\ tasks' = [tasks EXCEPT ![FreeSlot] = Task("rstEvents", "reset", Null, 0, FALSE, Null, Null)]
  /\ UNCHANGED << now, visible, username, useSimulator, lastKnownStatus, currentSessionStart,
                  pollingTimer, timers, events, sessions >>

\* the handler resumes after dbClear(events)
ResetEventsDone(i) ==
  /\ tasks[i].pc = "rstEvents"
  /\ events' = << >>
  /\ tasks' = [tasks EXCEPT ![i] = [@ EXCEPT !.pc = "rstSessions"]]
  /\ UNCHANGED << now, visible, username, useSimulator, lastKnownStatus, currentSessionStart,
                  pollingTimer, timers, sessions, budget >>

\* the handler resumes after dbClear(sessions) and runs to its end
ResetSessionsDone(i) ==
  /\ tasks[i].pc = "rstSessions"
  /\ sessions' = << >>
  /\ currentSessionStart' = NullTs
  /\ lastKnownStatus' = NullStatus
  /\ tasks' = [tasks EXCEPT ![i] = Idle]
  /\ UNCHANGED << now, visible, username, useSimulator, pollingTimer, timers, events, budget >>

(* ---------------- the program ---------------- *)

Resume(i) ==
  \/ FetchOk(i)
  \/ FetchFallback(i)
  \/ AddEventDone(i)
  \/ AddSessionDone(i)
  \/ AddHeartbeatDone(i)
  \/ AddFails(i)
  \/ GapReadDone(i)
  \/ GapSessionDone(i)
  \/ GapEventDone(i)
  \/ GapRepairDone(i)
  \/ GapAddFails(i)
  \/ VisFetchOk(i)
  \/ VisFetchFails(i)
  \/ SetUsernameRepaired(i)
  \/ SetUsernameFetchOk(i)
  \/ SetUsernameFetchFails(i)
  \/ WorkerFetchDone(i)
  \/ WorkerEventDone(i)
  \/ WorkerSessionDone(i)
  \/ WorkerAddFails(i)
  \/ ResetEventsDone(i)
  \/ ResetSessionsDone(i)

Next ==
  \/ Advance
  \/ Tick
  \/ BecomeVisible
  \/ BecomeHidden
  \/ SetUsername
  \/ WorkerCheck
  \/ ResetClick
  \/ \E i \in TaskIds : Resume(i)

Spec == Init /\ [][Next]_vars

(* ---------------- one invocation at a time ---------------- *)

\* no invocation is suspended at an await
Quiescent == \A i \in TaskIds : tasks[i].pc = "idle"

InitSerial ==
  /\ now = StartMs
  /\ visible = TRUE
  /\ username = ""
  /\ useSimulator \in BOOLEAN
  /\ lastKnownStatus = NullStatus
  /\ currentSessionStart = NullTs
  /\ pollingTimer = NullTs
  /\ timers = << >>
  /\ events = << >>
  /\ sessions = << >>
  /\ tasks = [i \in TaskIds |-> Idle]
  /\ budget = MaxSerialBudget

SerialAdvance == Quiescent /\ Advance

SerialTick == Quiescent /\ Tick

SerialBecomeVisible == Quiescent /\ BecomeVisible

SerialBecomeHidden == Quiescent /\ BecomeHidden

SerialSetUsername == Quiescent /\ SetUsername

\* an invocation of the page resumes
ResumePage(i) ==
  \/ FetchOk(i)
  \/ FetchFallback(i)
  \/ AddEventDone(i)
  \/ AddSessionDone(i)
  \/ AddHeartbeatDone(i)
  \/ AddFails(i)
  \/ GapReadDone(i)
  \/ GapSessionDone(i)
  \/ GapEventDone(i)
  \/ GapRepairDone(i)
  \/ GapAddFails(i)
  \/ VisFetchOk(i)
  \/ VisFetchFails(i)
  \/ SetUsernameRepaired(i)
  \/ SetUsernameFetchOk(i)
  \/ SetUsernameFetchFails(i)

\* every handler of the page runs to its end before the next one starts, and
\* the worker is never woken
NextSerial ==
  \/ SerialAdvance
  \/ SerialTick
  \/ SerialBecomeVisible
  \/ SerialBecomeHidden
  \/ SerialSetUsername
  \/ \E i \in TaskIds : ResumePage(i)

SpecSerial == InitSerial /\ [][NextSerial]_vars

(* ---------------- uninterrupted polling ---------------- *)

\* a page that has just loaded, at the epoch or later, with the real API in use
InitPoll ==
  /\ now \in {0, StartMs}
  /\ visible = TRUE
  /\ username = ""
  /\ useSimulator = FALSE
  /\ lastKnownStatus = NullStatus
  /\ currentSessionStart = NullTs
  /\ pollingTimer = NullTs
  /\ timers = << >>
  /\ events = << >>
  /\ sessions = << >>
  /\ tasks = [i \in TaskIds |-> Idle]
  /\ budget = 1

\* the poll cycle is over: nothing is in flight and no tick is due
PollCycleDone ==
  /\ Quiescent
  /\ DOMAIN timers # {}
  /\ \A id \in DOMAIN timers : now < timers[id]

\* one poll period passes, or the machine sleeps for more than the heartbeat
\* threshold and the timer fires when it wakes
PollAdvance ==
  /\ PollCycleDone
  /\ \E d \in {PollIntervalMs, HeartbeatMs + PollIntervalMs} :
       /\ now + d <= StartMs + MaxPollMinutes * PollIntervalMs
       /\ now' = now + d
  /\ UNCHANGED << visible, username, useSimulator, lastKnownStatus, currentSessionStart,
                  pollingTimer, timers, events, sessions, tasks, budget >>

\* the presence API answers, changing the observed state at most MaxPollEvents times
PollFetchOk(i) ==
  /\ FetchOk(i)
  /\ tasks'[i].pc = "addEv" => Len(events) < MaxPollEvents

PollSetUsername == Quiescent /\ SetUsername

NextPoll ==
  \/ PollSetUsername
  \/ PollAdvance
  \/ Tick
  \/ \E i \in TaskIds :
       \/ SetUsernameRepaired(i)
       \/ SetUsernameFetchOk(i)
       \/ SetUsernameFetchFails(i)
       \/ GapReadDone(i)
       \/ PollFetchOk(i)
       \/ AddEventDone(i)
       \/ AddSessionDone(i)
       \/ AddHeartbeatDone(i)

SpecPoll == InitPoll /\ [][NextPoll]_vars

(* ---------------- the Session Table ---------------- *)

SessionIds == 1 .. Len(sessions)

\* the intervals [startTs, endTs) of two sessions share an instant
Overlap(s1, s2) == s1.startTs < s2.endTs /\ s2.startTs < s1.endTs

\* C1: no two Session records of the same identity have overlapping
\* [startTs, endTs) intervals, whatever the interleaving of poll ticks,
\* suspend/resume signals, gap repairs and background-worker checks
C1_NoOverlappingSessions ==
  \A j, k \in SessionIds :
    (j < k /\ sessions[j].username = sessions[k].username)
      => ~Overlap(sessions[j], sessions[k])

\* C2: every Session record written has durationSec equal to
\* floor((endTs - startTs) / 1000), and that value is at least 0
C2_DurationIsFloorOfSpan ==
  \A k \in SessionIds :
    /\ sessions[k].durationSec = FloorSec(sessions[k].endTs - sessions[k].startTs)
    /\ sessions[k].durationSec >= 0

\* C3: every Session record written has startTs strictly before endTs
C3_StartBeforeEnd ==
  \A k \in SessionIds : sessions[k].startTs < sessions[k].endTs

(* ---------------- the Poll Scheduler ---------------- *)

\* the invocations of checkAndRecord that have not run to their end
InFlightIngests == { i \in TaskIds : tasks[i].pc # "idle" /\ tasks[i].ctx = "ingest" }

\* C10: at most one checkAndRecord/ingest invocation is in flight at any time
C10_SingleInFlightIngest == Cardinality(InFlightIngests) <= 1

(* ---------------- heartbeats ---------------- *)

EventIds == 1 .. Len(events)

\* two events record the same sample of the same identity
SameSample(e1, e2) ==
  /\ e1.username = e2.username
  /\ e1.online = e2.online
  /\ e1.gameName = e2.gameName

\* C4: while the same sample is ingested on every poll cycle, no Event is
\* written less than 30 minutes after the last recorded one: two
\* consecutive Events with the same sample are at least 30 minutes apart
C4_HeartbeatSuppression ==
  \A k \in EventIds :
    (k + 1 \in EventIds /\ SameSample(events[k], events[k + 1]))
      => events[k + 1].timestamp - events[k].timestamp >= HeartbeatMs

\* 29 minutes of polls with an unchanged sample have left the initial Event alone
C4_Witness ==
  /\ PollCycleDone
  /\ Len(events) = 1
  /\ now - events[1].timestamp >= 29 * PollIntervalMs
  /\ lastKnownStatus = Status(events[1].online, events[1].gameName, now)

\* C5: with a poll every 60 seconds a heartbeat Event is written once more
\* than 30 minutes have passed since the last recorded one, so when a poll
\* cycle is over the last Event of the identity is never older than 30
\* minutes plus one poll period
C5_HeartbeatEmission ==
  (PollCycleDone /\ HasEventFor(username))
    => now - LastEventFor(username).timestamp <= HeartbeatMs + PollIntervalMs

(* ---------------- scenario A: one online interval ---------------- *)

\* events[k] opens an online interval: no session was open before it
OpensInterval(k) ==
  /\ events[k].online
  /\ ~events[k].heartbeat
  /\ k = 1 \/ (events[k - 1].username = events[k].username /\ ~events[k - 1].online)

\* C6: an online sample with activity A ingested at t1 with no session open,
\* then unchanged samples, then an offline sample at t2, leave one online
\* Event at t1, one offline Event at t2 and exactly one Session
\* {startTs: t1, endTs: t2, durationSec: floor((t2 - t1) / 1000), activity: A}
C6_ScenarioA ==
  \A k \in EventIds :
    (/\ Quiescent
     /\ k + 1 \in EventIds
     /\ OpensInterval(k)
     /\ events[k + 1].username = events[k].username
     /\ ~events[k + 1].online
     /\ events[k].timestamp < events[k + 1].timestamp)
    => LET t1 == events[k].timestamp
           t2 == events[k + 1].timestamp
           expected == SessionRec(events[k].username, t1, t2, FloorSec(t2 - t1),
                                  events[k].gameName)
       IN  /\ Cardinality({ j \in EventIds : events[j].timestamp = t1 }) = 1
           /\ Cardinality({ j \in EventIds : events[j].timestamp = t2 }) = 1
           /\ Cardinality({ j \in SessionIds : sessions[j] = expected }) = 1
           /\ \A j \in SessionIds :
                Overlap(sessions[j], expected) => sessions[j] = expected

(* ---------------- gap repair scenarios ---------------- *)

\* the events that were stored when the repair in progress read them: all
\* but the event the repair has appended
PriorEvents == SubSeq(events, 1, Len(events) - 1)

\* the repair of invocation i has written its records and is about to
\* reconstruct the runtime state; lastEv is the event it found
RepairWritten(i) ==
  /\ tasks[i].pc = "repRead"
  /\ Len(events) > 0
  /\ HasEventOf(PriorEvents, username)
  /\ tasks[i].ts > LastEventOf(PriorEvents, username).timestamp

ScenarioB(i) ==
  /\ RepairWritten(i)
  /\ LastEventOf(PriorEvents, username).online
  /\ ~tasks[i].online

ScenarioC(i) ==
  /\ RepairWritten(i)
  /\ LastEventOf(PriorEvents, username).online
  /\ tasks[i].online

\* the event of the repair's sample is the last one stored and the only one
\* of the identity at nowTs
OneNewEvent(i) ==
  /\ events[Len(events)] = EventRec(username, tasks[i].online, OrNull(tasks[i].gameName),
                                    tasks[i].ts, FALSE)
  /\ Cardinality({ j \in EventIds : /\ events[j].username = username
                                    /\ events[j].timestamp = tasks[i].ts }) = 1

\* the step is not the rejection of a store write
WriteSettles == budget' = budget

\* C7: gap repair with an offline sample at nowTs after a last Event that is
\* online at t0 < nowTs appends exactly one Session [t0, nowTs] with the
\* activity of lastEv (else of the sample) and exactly one offline Event at
\* nowTs, and leaves currentSessionStart null
C7_ScenarioB ==
  [][ \A i \in TaskIds :
        LET t == tasks[i]
        IN
        /\ (/\ t.pc = "gapRead"
            /\ HasEventFor(username)
            /\ LastEventFor(username).online
            /\ ~t.online
            /\ t.ts > LastEventFor(username).timestamp)
           => LET lastEv == LastEventFor(username)
              IN  /\ tasks'[i].pc = "gapSess"
                  /\ tasks'[i].rec =
                       SessionRec(username, lastEv.timestamp, t.ts,
                                  FloorSec(t.ts - lastEv.timestamp),
                                  IF lastEv.gameName # Null THEN lastEv.gameName
                                  ELSE OrNull(t.gameName))
                  /\ UNCHANGED << events, sessions >>
        /\ (t.pc = "gapSess" /\ WriteSettles)
           => /\ sessions' = Append(sessions, t.rec)
              /\ events' = events
              /\ tasks'[i].pc = "gapEv"
        /\ (t.pc = "gapEv" /\ ~t.online /\ WriteSettles)
           => /\ events' = Append(events, EventRec(username, FALSE, OrNull(t.gameName),
                                                   t.ts, FALSE))
              /\ sessions' = sessions
              /\ tasks'[i].pc = "repRead"
        /\ ScenarioB(i) => currentSessionStart' = NullTs ]_vars

\* a session was open when the repair found the identity offline
C7_Witness ==
  \E i \in TaskIds : ScenarioB(i) /\ currentSessionStart # NullTs

Stores(ev, se, lks, css) == [events |-> ev, sessions |-> se, lks |-> lks, css |-> css]

\* addStatusEvent(u, on, g, ts) run without interruption from S
addStatusEventRun(S, u, on, g, ts) ==
  LET ev == Append(S.events, EventRec(u, on, OrNull(g), ts, FALSE))
  IN  IF on
      THEN Stores(ev, S.sessions, Status(on, g, ts),
                  IF ~TruthyTs(S.css) THEN ts ELSE S.css)
      ELSE IF TruthyTs(S.css)
      THEN Stores(ev, Append(S.sessions, closedSession(u, S.css, S.lks, g, ts)),
                  Status(on, g, ts), NullTs)
      ELSE Stores(ev, S.sessions, Status(on, g, ts), S.css)

\* onReopenFillGap(res, ts) run without interruption from S
onReopenFillGapRun(S, res, ts) ==
  IF ~HasEventOf(S.events, username)
  THEN addStatusEventRun(S, username, res.online, res.gameName, ts)
  ELSE LET lastEv == LastEventOf(S.events, username)
           se == IF lastEv.online /\ ~res.online
                 THEN Append(S.sessions, gapSession(username, lastEv, res.gameName, ts))
                 ELSE S.sessions
           ev == Append(S.events,
                        EventRec(username, res.online, OrNull(res.gameName), ts, FALSE))
           r  == repairStateFromDB(ev, username, S.lks, S.css)
       IN  Stores(ev, se, r.lks, r.css)

\* C9: gap repair run twice in a row with the same sample and the same nowTs
\* leaves the same last-known state and currentSessionStart after the
\* second run as after the first, and the second run appends no Session
C9_GapRepairIdempotent ==
  \A i \in TaskIds :
    tasks[i].pc = "gapRead" =>
      LET res == Sample(tasks[i].online, tasks[i].gameName)
          S1  == onReopenFillGapRun(
                   Stores(events, sessions, lastKnownStatus, currentSessionStart),
                   res, tasks[i].ts)
          S2  == onReopenFillGapRun(S1, res, tasks[i].ts)
      IN  /\ S2.lks = S1.lks
          /\ S2.css = S1.css
          /\ S2.sessions = S1.sessions

(* ---------------- the page alone ---------------- *)

\* the handlers of the page overlap freely; the worker is never woken and
\* the history is never reset
NextPage ==
  \/ Advance
  \/ Tick
  \/ BecomeVisible
  \/ BecomeHidden
  \/ SetUsername
  \/ \E i \in TaskIds : ResumePage(i)

SpecPage == Init /\ [][NextPage]_vars

(* ---------------- gap repair against ingest ---------------- *)

\* invocation g runs onReopenFillGap and has read the last event of the
\* identity, but has not yet finished its writes and the reconstruction
InRepairSection(g) ==
  /\ tasks[g].ctx = "gap"
  /\ tasks[g].pc \in {"gapSess", "gapEv", "repRead", "addEv", "addSess"}

\* C11: between the read of the last Event by gap repair and the end of its
\* writes and of the state reconstruction, no ingest of the same identity
\* reads or mutates last-known-state, currentSessionStart or the stores: an
\* ingest in flight does not resume, and a poll tick starts at most a fetch
C11_RepairExcludesIngest ==
  [][ \A g \in TaskIds :
        InRepairSection(g) =>
          /\ \A j \in TaskIds \ {g} :
               /\ (tasks[j].ctx = "ingest" /\ tasks[j].user = username)
                    => tasks'[j] = tasks[j]
               /\ (tasks[j].pc = "idle" /\ tasks'[j].ctx = "ingest")
                    => tasks'[j].pc = "fetch"
          /\ tasks' = tasks
               => UNCHANGED << lastKnownStatus, currentSessionStart, events, sessions >> ]_vars

(* ---------------- order of the event log ---------------- *)

\* C12: in insertion order the timestamps of the Events the page writes for
\* one identity never decrease, however poll ticks and repairs interleave
C12_EventTimestampsMonotone ==
  \A j, k \in EventIds :
    (j < k /\ events[j].username = events[k].username)
      => events[j].timestamp <= events[k].timestamp

(* ---------------- sessions against the event log ---------------- *)

\* events[j] is the first online Event of a run: the Event of the same
\* identity stored before it, if there is one, is offline
StartsOnlineRun(j) ==
  /\ events[j].online
  /\ \A k \in EventIds :
       (/\ k < j
        /\ events[k].username = events[j].username
        /\ \A m \in EventIds : (k < m /\ m < j) => events[m].username # events[j].username)
       => ~events[k].online

\* C13: every Session spans a maximal run of online Events: its startTs is
\* the timestamp of the first online Event after the preceding offline Event
\* (or after the start of the log), and no offline Event of the identity lies
\* strictly between startTs and endTs
C13_SessionSpansOnlineRun ==
  \A k \in SessionIds :
    /\ \E j \in EventIds :
         /\ events[j].username = sessions[k].username
         /\ events[j].timestamp = sessions[k].startTs
         /\ StartsOnlineRun(j)
    /\ \A j \in EventIds :
         (events[j].username = sessions[k].username /\ ~events[j].online)
           => ~(/\ sessions[k].startTs < events[j].timestamp
                /\ events[j].timestamp < sessions[k].endTs)

(* ---------------- a rejected Event write ---------------- *)

\* the invocation in slot i is an ingest waiting for its Event write
AwaitsEventWrite(i) ==
  /\ tasks[i].ctx = "ingest"
  /\ tasks[i].pc \in {"addEv", "addHb"}

\* C14: an ingest reaches its Event write (state change or heartbeat) without
\* having touched lastKnownStatus or currentSessionStart, and when that write
\* is rejected the cycle ends there: lastKnownStatus and currentSessionStart
\* stay as they were, the Event is not stored and no Session is written
C14_FailedEventWriteAbandons ==
  [][ \A i \in TaskIds :
        /\ (/\ tasks[i].pc = "idle" \/ (tasks[i].ctx = "ingest" /\ tasks[i].pc = "fetch")
            /\ AwaitsEventWrite(i)')
           => UNCHANGED << lastKnownStatus, currentSessionStart, events, sessions >>
        /\ (AwaitsEventWrite(i) /\ ~WriteSettles)
           => /\ tasks'[i] = Idle
              /\ UNCHANGED << lastKnownStatus, currentSessionStart, events, sessions >> ]_vars

\* the first ingest of an identity has ended and left no trace: its Event
\* write was rejected
C14_Witness ==
  /\ Quiescent
  /\ Truthy(username)
  /\ DOMAIN timers # {}
  /\ lastKnownStatus = NullStatus
  /\ currentSessionStart = NullTs
  /\ events = << >>
  /\ budget < MaxSerialBudget

(* ---------------- an ingest applied in part ---------------- *)

\* C15: once every invocation has ended, the log of the identity does not end
\* with an offline Event while the session is still open: an ingest stores
\* the offline Event, the Session and the closed state together or not at all
C15_IngestNotPartial ==
  (Quiescent /\ HasEventFor(username) /\ ~LastEventFor(username).online)
    => ~TruthyTs(currentSessionStart)

(* ---------------- failures inside a poll cycle ---------------- *)

\* the step is the failure of the poll cycle in slot i: a store write is
\* rejected, or the presence API gives no sample
CycleFails(i) ==
  /\ tasks[i].ctx = "ingest"
  /\ \/ tasks[i].pc \in {"addEv", "addSess", "addHb"} /\ ~WriteSettles
     \/ tasks[i].pc = "fetch" /\ ~useSimulator /\ useSimulator'

\* the step is the firing of a scheduled timer
TimerFires ==
  \E id \in DOMAIN timers :
    /\ now >= timers[id]
    /\ timers' = [timers EXCEPT ![id] = now + PollIntervalMs]

\* C16: a storage or source failure inside a poll cycle leaves the poll timer
\* scheduled as it was, and every firing of the timer with an identity set
\* starts checkAndRecord again (a sample is requested, an Event write is
\* issued, or the simulated sample is taken as the last known status)
C16_FailureKeepsPolling ==
  [][ /\ \A i \in TaskIds :
           CycleFails(i) => (DOMAIN timers # {} /\ UNCHANGED << timers, pollingTimer >>)
      /\ (Quiescent /\ TimerFires /\ Truthy(username))
           => \/ \E i \in TaskIds : tasks'[i].ctx = "ingest" /\ tasks'[i].ts = now
              \/ lastKnownStatus'.ts = now ]_vars

\* the first poll cycle of the identity failed at its Event write, and the
\* timer it left scheduled is due
C16_Witness ==
  /\ Quiescent
  /\ Truthy(username)
  /\ lastKnownStatus = NullStatus
  /\ events = << >>
  /\ TruthyTs(pollingTimer)
  /\ pollingTimer \in DOMAIN timers
  /\ now >= timers[pollingTimer]

(* ---------------- resumption ---------------- *)

\* the invocation in slot i is a resume handler (visibilitychange or
\* setUsername) and the step is its last one: startPolling
ResumeHandlerEnds(i) ==
  /\ tasks[i].ctx = "gap"
  /\ tasks'[i].ctx # "gap"

\* gap repair has written what it had to write and reconstructs the state,
\* or its addStatusEvent for an empty log settles
RepairCompletes(i) ==
  \/ tasks[i].pc = "repRead"
  \/ tasks[i].pc = "addEv" /\ (tasks[i].online \/ ~TruthyTs(currentSessionStart))
  \/ tasks[i].pc = "addSess"

\* C17: a resume handler with an identity set restarts the poll timer and
\* starts the first ingest only in the step that completes gap repair, also
\* when its sample fetch fails (no store write being rejected)
C17_RepairBeforeRestart ==
  [][ \A i \in TaskIds :
        (ResumeHandlerEnds(i) /\ Truthy(username) /\ WriteSettles)
          => RepairCompletes(i) ]_vars

(* ---------------- suspension ---------------- *)

\* C18: while the tab is hidden no poll timer is scheduled, whatever the
\* order of the visibility signals and of the steps of a resume handler that
\* is still running
C18_NoTimerWhileHidden ==
  ~visible => (DOMAIN timers = {} /\ ~TruthyTs(pollingTimer))

(* ---------------- the empty identity ---------------- *)

\* C19: as long as no identity has been set the page writes no Event and no
\* Session and schedules no poll timer, whatever signals arrive
C19_EmptyIdentityIsInert ==
  ~Truthy(username) =>
    /\ events = << >>
    /\ sessions = << >>
    /\ DOMAIN timers = {}

(* ---------------- state reconstruction ---------------- *)

\* the invocation in slot i is about to resume from the dbGetAll of
\* repairStateFromDB
AwaitsRepairRead(i) == tasks[i].pc \in {"suRead", "repRead"}

\* C20: whenever repairStateFromDB runs, the state it leaves is the one it
\* would leave had nothing been retained (so it is a function of the log of
\* the current identity alone, also when that log is empty), and running it
\* again on its own result changes nothing
C20_RepairIgnoresRetainedState ==
  \A i \in TaskIds :
    AwaitsRepairRead(i) =>
      LET r == repairStateFromDB(events, username, lastKnownStatus, currentSessionStart)
      IN  /\ r = repairStateFromDB(events, username, NullStatus, NullTs)
          /\ repairStateFromDB(events, username, r.lks, r.css) = r

(* ---------------- the runtime state against the log ---------------- *)

\* C21: once the ingests run so far have ended, repairStateFromDB run on the
\* Event Log gives the online flag the engine holds in memory, an open
\* session exactly when the engine holds one, and the same start for it (no
\* Event carrying the timestamp 0)
C21_StateReconstructible ==
  (/\ Quiescent
   /\ HasEventFor(username)
   /\ lastKnownStatus # NullStatus
   /\ \A k \in EventIds : TruthyTs(events[k].timestamp))
    => LET r == repairStateFromDB(events, username, lastKnownStatus, currentSessionStart)
       IN  /\ r.lks.online = lastKnownStatus.online
           /\ TruthyTs(r.css) = TruthyTs(currentSessionStart)
           /\ TruthyTs(r.css) => r.css = currentSessionStart

(* ---------------- the source fallback ---------------- *)

\* the invocation in slot i awaits the presence API on the resume path
AwaitsResumeFetch(i) == tasks[i].pc \in {"suFetch", "visFetch"}

\* C22: a poll cycle whose fetch ends makes no second fetch; when the fetch
\* failed it ingests the simulator's sample and useSimulator is set, and once
\* set no invocation awaits the presence API any more; a resume handler whose
\* fetch ends hands a sample to gap repair, the simulator's when the fetch
\* failed
C22_SourceFallback ==
  [][ \A i \in TaskIds :
        /\ (tasks[i].pc = "fetch" /\ tasks'[i] # tasks[i])
             => /\ tasks'[i].pc # "fetch"
                /\ (useSimulator' /\ ~useSimulator)
                     => LET r == onStatusResult(simulateStatus(username, now), tasks[i].ts,
                                                lastKnownStatus, currentSessionStart)
                        IN  /\ tasks'[i] = r.task
                            /\ lastKnownStatus' = r.lks
                            /\ currentSessionStart' = r.css
        /\ (useSimulator /\ tasks'[i] # tasks[i])
             => (tasks'[i].pc \notin {"fetch", "suFetch", "visFetch"} /\ useSimulator')
        /\ (AwaitsResumeFetch(i) /\ tasks'[i] # tasks[i])
             => /\ tasks'[i].pc = "gapRead"
                /\ \/ Sample(tasks'[i].online, tasks'[i].gameName) \in FetchSamples
                   \/ /\ useSimulator'
                      /\ Sample(tasks'[i].online, tasks'[i].gameName)
                           = simulateStatus(username, now) ]_vars

(* ---------------- the simulator called again and again ---------------- *)

\* how long the simulator is sampled, in milliseconds after the first call
MaxSimMs == 180000

SimSteps == {5000, 25000}

InitSim ==
  /\ now \in {0, StartMs}
  /\ visible = TRUE
  /\ username \in Users \cup {""}
  /\ useSimulator = TRUE
  /\ lastKnownStatus = NullStatus
  /\ currentSessionStart = NullTs
  /\ pollingTimer = NullTs
  /\ timers = << >>
  /\ events = << >>
  /\ sessions = << >>
  /\ tasks = [i \in TaskIds |-> Idle]
  /\ budget = 0

\* Date.now() moves on between two calls
SimAdvance ==
  /\ \E d \in SimSteps :
       /\ now + d <= StartMs + MaxSimMs
       /\ now' = now + d
  /\ UNCHANGED << visible, username, useSimulator, lastKnownStatus, currentSessionStart,
                  pollingTimer, timers, events, sessions, tasks, budget >>

\* simulateStatus(username) is called and its sample kept with the time of
\* the call
SimCall ==
  /\ lastKnownStatus' = Status(simulateStatus(username, now).online,
                               simulateStatus(username, now).gameName, now)
  /\ UNCHANGED << now, visible, username, useSimulator, currentSessionStart,
                  pollingTimer, timers, events, sessions, tasks, budget >>

NextSim == SimAdvance \/ SimCall

SpecSim == InitSim /\ [][NextSim]_vars

\* the minute bucket of a wall-clock time
MinuteOf(t) == t \div PollIntervalMs

\* C23: a call of the simulator for the same identity inside the minute
\* bucket of an earlier call returns the online flag and the activity of that
\* earlier call; the activity is null when offline and one of the catalogue
\* when online
C23_SimulatorDeterministic ==
  LET s == simulateStatus(username, now)
  IN  /\ (lastKnownStatus # NullStatus /\ MinuteOf(lastKnownStatus.ts) = MinuteOf(now))
           => (s.online = lastKnownStatus.online /\ s.gameName = lastKnownStatus.gameName)
      /\ IF s.online
         THEN \E k \in 1 .. Len(games) : s.gameName = games[k]
         ELSE s.gameName = Null

\* an earlier call in the same minute, at another instant, found the identity
\* online
C23_Witness ==
  /\ lastKnownStatus # NullStatus
  /\ lastKnownStatus.ts < now
  /\ MinuteOf(lastKnownStatus.ts) = MinuteOf(now)
  /\ lastKnownStatus.online
  /\ simulateStatus(username, now).gameName # Null

(* ---------------- the transitions of an ingest ---------------- *)

\* the ingest in slot i has stored the offline Event of a true->false
\* transition and goes on to close the open session
ClosesSession(i) ==
  /\ tasks[i].ctx = "ingest"
  /\ tasks[i].pc = "addEv"
  /\ tasks'[i].pc = "addSess"

\* C24: the Session an ingest writes on a true->false transition starts at
\* currentSessionStart, ends at the ingest's ts and carries the activity of
\* the last known state, never that of the offline sample; once it is written
\* currentSessionStart is null
C24_CloseOnOffline ==
  [][ \A i \in TaskIds :
        /\ ClosesSession(i)
             => /\ tasks'[i].rec.startTs = currentSessionStart
                /\ tasks'[i].rec.endTs = tasks[i].ts
                /\ tasks'[i].rec.gameName = lastKnownStatus.gameName
        /\ (tasks[i].ctx = "ingest" /\ tasks[i].pc = "addSess" /\ WriteSettles)
             => /\ sessions' = Append(sessions, tasks[i].rec)
                /\ currentSessionStart' = NullTs ]_vars

\* the ingest in slot i is about to store the Event of an online sample that
\* differs from an online last known state in its activity only
ActivityChange(i) ==
  /\ tasks[i].ctx = "ingest"
  /\ tasks[i].pc = "addEv"
  /\ tasks[i].online
  /\ lastKnownStatus # NullStatus
  /\ lastKnownStatus.online
  /\ lastKnownStatus.gameName # tasks[i].gameName

\* C25: an ingest of an online sample that differs from an online last known
\* state only in activity stores exactly one Event, writes no Session, leaves
\* currentSessionStart as it is and ends with the last known state holding
\* the sample's activity and the ingest's ts
C25_ActivityChangeKeepsSession ==
  [][ \A i \in TaskIds :
        (ActivityChange(i) /\ WriteSettles)
          => /\ events' = Append(events, EventRec(tasks[i].user, TRUE, tasks[i].gameName,
                                                  tasks[i].ts, FALSE))
             /\ sessions' = sessions
             /\ currentSessionStart' = currentSessionStart
             /\ lastKnownStatus' = Status(TRUE, tasks[i].gameName, tasks[i].ts)
             /\ tasks'[i] = Idle ]_vars

\* the samples the sampling pipeline can hand to an ingest at this moment
SamplesNow == FetchSamples \cup {simulateStatus(username, now)}

\* C26: an ingest that ends without a rejected store write (first
\* observation, state change, unchanged sample or heartbeat) leaves
\* lastKnownStatus = {online, activity, ts} of its sample and its ts
C26_LastKnownIsSample ==
  [][ /\ \A i \in TaskIds :
           (tasks[i].ctx = "ingest" /\ tasks'[i] = Idle /\ WriteSettles)
             => IF tasks[i].pc = "fetch"
                THEN /\ lastKnownStatus'.ts = tasks[i].ts
                     /\ Sample(lastKnownStatus'.online, lastKnownStatus'.gameName) \in SamplesNow
                ELSE lastKnownStatus' =
                       Status(tasks[i].online, tasks[i].gameName, tasks[i].ts)
      /\ (Quiescent /\ TimerFires /\ Truthy(username) /\ Quiescent')
           => lastKnownStatus' = Status(simulateStatus(username, now).online,
                                        simulateStatus(username, now).gameName, now) ]_vars

\* an unchanged sample has been ingested: the last known state is newer than
\* the newest Event of the identity
C26_Witness ==
  /\ Quiescent
  /\ HasEventFor(username)
  /\ lastKnownStatus # NullStatus
  /\ lastKnownStatus.ts > LastEventFor(username).timestamp

\* the step ends the ingest in slot i, which found its sample unchanged and
\* wrote nothing, or wrote a heartbeat
EndsWithoutTransition(i) ==
  /\ tasks[i].ctx = "ingest"
  /\ tasks[i].pc \in {"fetch", "addHb"}
  /\ tasks'[i] = Idle

\* C27: an ingest that writes a heartbeat Event, and an ingest of an unchanged
\* sample that writes nothing, leave the Session Table and
\* currentSessionStart as they were
C27_HeartbeatKeepsSessions ==
  [][ /\ \A i \in TaskIds :
           (EndsWithoutTransition(i) /\ WriteSettles)
             => (sessions' = sessions /\ currentSessionStart' = currentSessionStart)
      /\ (Quiescent /\ TimerFires /\ Truthy(username) /\ Quiescent')
           => (sessions' = sessions /\ currentSessionStart' = currentSessionStart) ]_vars

(* ---------------- the stores ---------------- *)

\* every record of a is in b, at its place and unchanged
IsPrefix(a, b) == Len(a) <= Len(b) /\ SubSeq(b, 1, Len(a)) = a

\* the step is a dbClear of the reset handler
ClearsEvents == \E i \in TaskIds : tasks[i].pc = "rstEvents" /\ tasks'[i].pc = "rstSessions"

ClearsSessions == \E i \in TaskIds : tasks[i].pc = "rstSessions" /\ tasks'[i] = Idle

\* C28: every step of an ingest, of a gap repair or of the worker keeps the
\* records of the Event Log and of the Session Table in place and unchanged,
\* adding at most one; only the two dbClear of the history reset remove
\* records
C28_StoresAppendOnly ==
  [][ /\ IF ClearsEvents
         THEN events' = << >>
         ELSE IsPrefix(events, events') /\ Len(events') <= Len(events) + 1
      /\ IF ClearsSessions
         THEN sessions' = << >>
         ELSE IsPrefix(sessions, sessions') /\ Len(sessions') <= Len(sessions) + 1 ]_vars

\* a gap repair has added its Event behind Events stored before it
C28_Witness ==
  /\ \E i \in TaskIds : tasks[i].pc = "repRead"
  /\ Len(events) >= 2

(* ---------------- the poll timer ---------------- *)

LoggedStatus(u) == repairStateFromDB(events, u, NullStatus, NullTs).lks

\* onStatusResult would store an Event for this sample of identity u
IngestWritesEvent(u, on, g, ts) ==
  \/ LoggedStatus(u) = NullStatus
  \/ StatusChanged(LoggedStatus(u), on, OrNull(g))
  \/ HeartbeatDue(LoggedStatus(u), ts)

\* C30: the background check appends what the ingest of the page would
\* append: an Event only for a first observation, a state change or a due
\* heartbeat, and a Session only when its offline sample closes an online
\* interval of the identity, the Session then starting at an online Event of
\* that identity
C30_WorkerMatchesIngest ==
  [][ \A i \in TaskIds :
        /\ (tasks[i].pc = "wAddEv" /\ events' # events)
             => IngestWritesEvent(tasks[i].user, tasks[i].online, tasks[i].gameName,
                                  tasks[i].ts)
        /\ (tasks[i].pc = "wAddSess" /\ sessions' # sessions)
             => \E k \in EventIds :
                  /\ events[k].username = tasks[i].user
                  /\ events[k].online
                  /\ events[k].timestamp = sessions'[Len(sessions')].startTs ]_vars

(* ---------------- the open-session marker ---------------- *)

\* C31: whenever no ingest, repair or reset is in flight, currentSessionStart
\* is non-null exactly when a last known state exists and is online
C31_MarkerMatchesLastKnown ==
  Quiescent =>
    (currentSessionStart # NullTs <=> (lastKnownStatus # NullStatus /\ lastKnownStatus.online))
====
